---- MODULE Spec2Model ----
(***************************************************************************)
(* CrossFit WOD scraper (tools/scraper/crossfit_scraper.py): the crawl     *)
(* controller scrape_until_end, the page fetcher fetch_page, the content   *)
(* extractor, the persistence layer (save_workout_data, update_index) and  *)
(* the exception handlers of main.                                         *)
(*                                                                         *)
(* Strings of the program are modelled as sequences of characters, a       *)
(* character being a number: 0..9 are the digits, 10 and above letters.    *)
(* The empty sequence stands for Python's None / empty string where the    *)
(* code only tests truthiness.                                             *)
(***************************************************************************)
EXTENDS Integers, Sequences, FiniteSets, TLC

VARIABLES
    args,           \* [start_url, max_count, end_date, delay, retries]: argparse result and call defaults
    web,            \* the remote site: last path segment -> page served
    pc,             \* position of the process in main / scrape_until_end
    current_url,    \* scrape_until_end local
    scraped_count,  \* scrape_until_end local
    stats,          \* self.stats
    workout_data,   \* scrape_until_end local: record of the current iteration
    files,          \* output_dir/wod_<date>.json: date -> record, or NoFile
    index,          \* output_dir/index.json
    attempt,        \* fetch_page loop variable
    fetch_result,   \* what fetch_page returned to extract_workout_data
    get_log,        \* history: outcome of every GET of the current fetch_page call
    waits,          \* history: every time.sleep of the current fetch_page call
    gets,           \* history: last segments of all URLs a GET was issued for
    pages_fetched,  \* history: number of fetch_page calls
    terminal,       \* history: why the while loop ended
    last_save,      \* history: outcome of the latest save_workout_data
    save_failures,  \* history: number of failed saves
    flushes,        \* history: update_index calls by call site
    mid_flushes,    \* history: (scraped_count, total_scraped) at each periodic flush
    exit_code       \* process exit status, meaningful when pc = "exited"

vars == <<args, web, pc, current_url, scraped_count, stats, workout_data, files,
          index, attempt, fetch_result, get_log, waits, gets, pages_fetched,
          terminal, last_save, save_failures, flushes, mid_flushes, exit_code>>

----------------------------------------------------------------------------
(* Bounds of the model *)

NumDates == 3          \* dates the site serves pages for
MaxPages == 11         \* cap on loop iterations when max_count is None
MaxCount == 2          \* largest --max-count tried
MaxSaveFailures == 1   \* failing saves per run
MaxRetries == 4        \* largest retries argument tried for fetch_page alone
MaxDelay == 2          \* largest --delay tried for fetch_page alone
MaxMovements == 1      \* movement links on a page

(* Program constants *)

FlushPeriod == 10      \* scraped_count % 10
DefaultRetries == 3    \* fetch_page(url, retries=3)
DefaultDelay == 2      \* --delay default 2.0
DateLen == 6           \* \d{6}
BackoffBase == 2       \* 2 ** attempt
Century == 2000        \* 2000 + int(yymmdd[:2])

----------------------------------------------------------------------------
(* Strings, dates, URLs *)

NoStr == <<>>
NoMax == -1            \* max_count is None

IsDigit(c) == c \in 0..9

\* Python str < str on character sequences (lexicographic, shorter prefix first).
RECURSIVE StrLess(_, _)
StrLessEq(a, b) == a = b \/ StrLess(a, b)
StrLess(a, b) ==
    IF b = <<>> THEN FALSE
    ELSE IF a = <<>> THEN TRUE
    ELSE IF Head(a) < Head(b) THEN TRUE
    ELSE IF Head(a) > Head(b) THEN FALSE
    ELSE StrLess(Tail(a), Tail(b))

\* sorted(list of str): insertion into an already sorted list, then the whole list.
RECURSIVE InsertSorted(_, _)
InsertSorted(x, s) ==
    IF s = <<>> THEN <<x>>
    ELSE IF StrLess(x, Head(s)) THEN <<x>> \o s
    ELSE <<Head(s)>> \o InsertSorted(x, Tail(s))

RECURSIVE Sorted(_)
Sorted(s) == IF s = <<>> THEN <<>> ELSE InsertSorted(Head(s), Sorted(Tail(s)))

TwoDigits(n) == <<n \div 10, n % 10>>
DateCode(yy, mm, dd) == TwoDigits(yy) \o TwoDigits(mm) \o TwoDigits(dd)

\* The i-th newest date of the site: 251101, 251031, 251030, ... ; Code(0) = 251102.
Code(i) == IF i <= 1 THEN DateCode(25, 11, 2 - i) ELSE DateCode(25, 10, 33 - i)
Dates == {Code(i) : i \in 1..NumDates}

BaseUrl == "https://www.crossfit.com"
Url(seg) == [host |-> BaseUrl, seg |-> seg]
NoUrl == [host |-> "", seg |-> NoStr]

\* re.search(r'/(\d{6})$', url): the last path segment when it is exactly six digits.
parse_date_from_url(url) ==
    IF Len(url.seg) = DateLen /\ \A i \in 1..Len(url.seg) : IsDigit(url.seg[i])
    THEN url.seg ELSE NoStr

\* parse_yymmdd_to_date: (year, month, day) as one number that orders like datetime.
parse_yymmdd_to_date(d) ==
    ((Century + d[1] * 10 + d[2]) * 100 + (d[3] * 10 + d[4])) * 100 + (d[5] * 10 + d[6])

\* A value of props.get('previousUrl'): None, "", "/seg", "https://www.crossfit.com/seg", or a number.
Link(kind, seg) == [kind |-> kind, seg |-> seg]
NoLink == Link("none", NoStr)

\* `not previous_url`
LinkFalsy(l) == l.kind \in {"none", "empty"}
\* urljoin(self.base_url, previous_url) raises TypeError on a non-str argument
UrlJoinRaises(l) == l.kind = "num"
UrlJoin(base, l) ==
    IF l.kind = "rel" THEN [host |-> base, seg |-> l.seg]
    ELSE IF l.kind = "abs" THEN [host |-> BaseUrl, seg |-> l.seg]
    ELSE [host |-> base, seg |-> NoStr]

----------------------------------------------------------------------------
(* Pages of the remote site *)

\* Outcome of soup.select(selector) for the five workout_selectors, in order:
\* "raise" (the selector is rejected), "none" (no element), "short" (elements
\* whose text is at most 10 characters), "hit" (some text longer than that).
NoSelectors == <<"none", "none", "none", "raise", "raise">>
\* Whether each of the three workout_patterns matches the text of <main>.
NoPatterns == <<FALSE, FALSE, FALSE>>

Page(previous) ==
    [empty     |-> FALSE,        \* the body is the empty string
     state     |-> "json",       \* __PRELOADED_STATE__: "none", "unparseable", "json"
     pages     |-> "dict",       \* json_data['pages']: "missing", "nondict", "dict"
     daily     |-> TRUE,         \* a component named DailyModule is present
     featured  |-> "absent",     \* props['featuredContent']: "absent", "dict", "nondict"
     previous  |-> previous,     \* props.get('previousUrl')
     movements |-> MaxMovements, \* anchors with /essentials/ in href
     selectors |-> NoSelectors,
     hasMain   |-> TRUE,
     patterns  |-> <<FALSE, TRUE, TRUE>>]

NonDateSeg == <<2, 5, 1, 1, 0, 10>>      \* "25110a"
ShortSeg == <<2, 5, 1, 1>>               \* "2511"
Segs == Dates \cup {NonDateSeg, ShortSeg}

\* The page the site serves for the i-th date when nothing is special about it:
\* its previous link is the next older date, the oldest page has none.
NormalPage(i) ==
    Page(IF i < NumDates THEN Link("rel", Code(i + 1)) ELSE NoLink)

\* The pages one date of the site may serve instead.
SpecialPages(i) ==
    LET n == NormalPage(i) IN
    {   [n EXCEPT !.empty = TRUE],
        [n EXCEPT !.state = "none"],
        [n EXCEPT !.state = "unparseable"],
        [n EXCEPT !.pages = "missing"],
        [n EXCEPT !.pages = "nondict"],
        [n EXCEPT !.daily = FALSE],
        [n EXCEPT !.featured = "dict"],
        [n EXCEPT !.featured = "nondict"],
        [n EXCEPT !.movements = 0],
        [n EXCEPT !.selectors = <<"raise", "short", "hit", "raise", "raise">>],
        [n EXCEPT !.hasMain = FALSE],
        [n EXCEPT !.patterns = NoPatterns],
        [n EXCEPT !.previous = NoLink],
        [n EXCEPT !.previous = Link("empty", NoStr)],
        [n EXCEPT !.previous = Link("num", NoStr)],
        [n EXCEPT !.previous = Link("rel", Code(i))],
        [n EXCEPT !.previous = Link("rel", Code(1))],
        [n EXCEPT !.previous = Link("abs", Code(1))],
        [n EXCEPT !.previous = Link("rel", NonDateSeg)] }

NormalWeb == [s \in Segs |->
    IF \E i \in 1..NumDates : s = Code(i)
    THEN NormalPage(CHOOSE i \in 1..NumDates : s = Code(i))
    ELSE Page(NoLink)]

\* The sites tried: the plain chain of dates, and the chain with one special page.
Webs == {NormalWeb} \cup
    {[NormalWeb EXCEPT ![Code(i)] = p] : <<i, p>> \in
        UNION {{<<j, q>> : q \in SpecialPages(j)} : j \in 1..NumDates}}

----------------------------------------------------------------------------
(* extract_json_data and extract_workout_content *)

NoJson == [present |-> FALSE, pages |-> "missing", daily |-> FALSE,
           featured |-> "absent", previous |-> NoLink]

\* None when the marker is missing or json.loads fails, else the parsed object.
extract_json_data(html) ==
    IF html.state # "json" THEN NoJson
    ELSE [present |-> TRUE, pages |-> html.pages, daily |-> html.daily,
          featured |-> html.featured, previous |-> html.previous]

NoContent == [src |-> "none", idx |-> 0]

\* workout_data as initialised at the top of extract_workout_content; `raised`
\* records that the single try block was left through its except clause.
EmptyContent ==
    [title |-> FALSE, hasNav |-> FALSE, previous |-> NoLink, featured |-> FALSE,
     movements |-> 0, content |-> NoContent, raised |-> FALSE]

\* Lines 160-203: fields taken from the embedded state. page_data.get raises
\* AttributeError when 'pages' is no dict, featured.get when 'featuredContent'
\* is no dict; what was assigned before the raise stays.
StateFields(w, json_data) ==
    IF ~(json_data.present /\ json_data.pages # "missing") THEN w
    ELSE IF json_data.pages = "nondict" THEN [w EXCEPT !.raised = TRUE]
    ELSE LET t == [w EXCEPT !.title = TRUE] IN
         IF ~json_data.daily THEN t
         ELSE LET n == [t EXCEPT !.hasNav = TRUE, !.previous = json_data.previous] IN
              IF json_data.featured = "nondict" THEN [n EXCEPT !.raised = TRUE]
              ELSE IF json_data.featured = "dict" THEN [n EXCEPT !.featured = TRUE]
              ELSE n

\* Lines 206-215: one entry per /essentials/ anchor.
MovementLinks(w, html) == [w EXCEPT !.movements = html.movements]

\* Lines 227-241: the first selector with a long enough text; a selector that
\* raises is skipped by the inner bare except.
RECURSIVE FirstHit(_, _)
FirstHit(sel, i) ==
    IF i > Len(sel) THEN NoContent
    ELSE IF sel[i] = "hit" THEN [src |-> "selector", idx |-> i]
    ELSE FirstHit(sel, i + 1)

SelectorSearch(w, html) == [w EXCEPT !.content = FirstHit(html.selectors, 1)]

\* Lines 244-259: the first pattern matching the text of the main content area.
RECURSIVE FirstMatch(_, _)
FirstMatch(pat, i) ==
    IF i > Len(pat) THEN NoContent
    ELSE IF pat[i] THEN [src |-> "pattern", idx |-> i]
    ELSE FirstMatch(pat, i + 1)

RegexFallback(w, html) ==
    IF w.content # NoContent \/ ~html.hasMain THEN w
    ELSE [w EXCEPT !.content = FirstMatch(html.patterns, 1)]

\* One try block spans all four steps (lines 158-262): a raise in a step skips
\* every step after it, and the function returns what was assigned so far.
StepUnlessRaised(w, next) == IF w.raised THEN w ELSE next

extract_workout_content(html, json_data) ==
    LET s1 == StateFields(EmptyContent, json_data)
        s2 == StepUnlessRaised(s1, MovementLinks(s1, html))
        s3 == StepUnlessRaised(s2, SelectorSearch(s2, html))
        s4 == StepUnlessRaised(s3, RegexFallback(s3, html))
    IN  s4

NoRecord == [date |-> NoStr, url |-> NoUrl, body |-> EmptyContent]

\* Lines 280-300 of extract_workout_data, after a non-empty page was fetched.
BuildRecord(url, html) ==
    [date |-> parse_date_from_url(url), url |-> url,
     body |-> extract_workout_content(html, extract_json_data(html))]

\* workout_data.get('navigation', {}).get('previous')
PreviousOf(rec) == IF rec.body.hasNav THEN rec.body.previous ELSE NoLink

----------------------------------------------------------------------------
(* Persistence *)

NoFile == NoRecord
NoIndex == [state |-> "absent", total_workouts |-> 0, extracted_dates |-> <<>>,
            errors |-> 0]

InitStats == [total_scraped |-> 0, errors |-> 0, skipped |-> 0,
              start_time |-> "None", extracted_dates |-> <<>>]

\* json.dump(index_data) writes key after key and raises TypeError at the first
\* value that is no JSON type: a datetime start_time leaves the document cut
\* off inside "stats", after "skipped".
IndexDocState(st) == IF st.start_time = "datetime" THEN "truncated" ELSE "complete"

\* 'extracted_dates': sorted(self.stats['extracted_dates'])
IndexDates(st) == Sorted(st.extracted_dates)

\* update_index: io_ok is whether open(index_file, 'w') succeeds; when it does
\* not, the exception is logged and the file is as it was.
update_index(ix, st, io_ok) ==
    IF ~io_ok THEN ix
    ELSE [state |-> IndexDocState(st), total_workouts |-> st.total_scraped,
          extracted_dates |-> IndexDates(st), errors |-> st.errors]

\* save_workout_data, lines 312-314 and 316-318. A save fails when the record
\* file cannot be opened for writing; the file is then as it was.
SaveOkStats(st, date) ==
    [st EXCEPT !.total_scraped = @ + 1, !.extracted_dates = Append(@, date)]
SaveFailedStatsCounted(st) == [st EXCEPT !.errors = @ + 1, !.total_scraped = @ + 1]
SaveFailedStats(st) == [st EXCEPT !.errors = @ + 1]

----------------------------------------------------------------------------
(* Initial states *)

NoFlushes == [periodic |-> 0, final |-> 0, handler |-> 0]

StartUrls == {Url(Code(1)), Url(ShortSeg)}
MaxCounts == {NoMax} \cup 0..MaxCount
EndDates == {NoStr} \cup {Code(i) : i \in 0..NumDates}

\* What is the same at the start of every run.
InitCommon ==
    /\ web \in Webs
    /\ scraped_count = 0
    /\ stats = InitStats
    /\ workout_data = NoRecord
    /\ files = [d \in Dates |-> NoFile]
    /\ index = NoIndex
    /\ attempt = 0
    /\ fetch_result = "pending"
    /\ get_log = <<>>
    /\ waits = <<>>
    /\ gets = {}
    /\ terminal = "none"
    /\ last_save = "none"
    /\ save_failures = 0
    /\ flushes = NoFlushes
    /\ mid_flushes = {}
    /\ exit_code = 0

\* main() after argument parsing and CrossFitScraper.__init__.
Init ==
    /\ args \in [start_url : StartUrls, max_count : MaxCounts, end_date : EndDates,
                 delay : {DefaultDelay}, retries : {DefaultRetries}]
    /\ pc = "main"
    /\ current_url = NoUrl
    /\ pages_fetched = 0
    /\ InitCommon

\* fetch_page called on its own, for any retries and delay.
InitFetch ==
    /\ args \in [start_url : {Url(d) : d \in Dates}, max_count : {NoMax},
                 end_date : {NoStr}, delay : 0..MaxDelay, retries : 0..MaxRetries]
    /\ pc = "fetch"
    /\ current_url = args.start_url
    /\ pages_fetched = 1
    /\ InitCommon

----------------------------------------------------------------------------
(* scrape_until_end *)

\* Lines 342-346.
StartScrape ==
    /\ pc = "main"
    /\ stats' = [stats EXCEPT !.start_time = "datetime"]
    /\ current_url' = args.start_url
    /\ scraped_count' = 0
    /\ pc' = "loop"
    /\ UNCHANGED <<args, web, workout_data, files, index, attempt, fetch_result,
                   get_log, waits, gets, pages_fetched, terminal, last_save,
                   save_failures, flushes, mid_flushes, exit_code>>

CountUpToMax(count, max) == count <= max
\* Line 348: while current_url and (max_count is None or scraped_count < max_count)
CountBelowMax(count, max) == count < max
LoopConditionUrlOnly(url, count, max) == url # NoUrl
LoopCondition(url, count, max) ==
    url # NoUrl /\ (max = NoMax \/ CountBelowMax(count, max))

DateNotAfter(current_date, end_date) == StrLessEq(current_date, end_date)
\* Line 352: current_date < end_date, on str
DateBefore(current_date, end_date) == StrLess(current_date, end_date)
\* Lines 350-354
EndDateReached(url, end_date) ==
    /\ end_date # NoStr
    /\ parse_date_from_url(url) # NoStr
    /\ DateBefore(parse_date_from_url(url), end_date)

ExtractFailedStatsUncounted(st) == st
\* Line 360: self.stats['errors'] += 1
ExtractFailedStats(st) == [st EXCEPT !.errors = @ + 1]

ExtractFailedContinue ==
    /\ stats' = ExtractFailedStats(stats)
    /\ terminal' = "fetch_failure"
    /\ pc' = "loop"
\* Lines 358-361: no record, count the error and break.
ExtractFailed ==
    /\ stats' = ExtractFailedStats(stats)
    /\ terminal' = "fetch_failure"
    /\ pc' = "final"

\* Lines 348-357 and 268-276: the loop test, the end-date test, and the entry
\* into extract_workout_data up to the call of fetch_page.
LoopHead ==
    /\ pc = "loop"
    /\ scraped_count < MaxPages
    /\ IF ~LoopCondition(current_url, scraped_count, args.max_count)
       THEN /\ terminal' = "max_count"
            /\ pc' = "final"
            /\ UNCHANGED <<stats, pages_fetched>>
       ELSE IF EndDateReached(current_url, args.end_date)
       THEN /\ terminal' = "bound"
            /\ pc' = "final"
            /\ UNCHANGED <<stats, pages_fetched>>
       ELSE IF parse_date_from_url(current_url) = NoStr
       THEN /\ ExtractFailed
            /\ UNCHANGED pages_fetched
       ELSE /\ pc' = "fetch"
            /\ pages_fetched' = pages_fetched + 1
            /\ UNCHANGED <<stats, terminal>>
    /\ attempt' = 0
    /\ fetch_result' = "pending"
    /\ get_log' = <<>>
    /\ waits' = <<>>
    /\ UNCHANGED <<args, web, current_url, scraped_count, workout_data, files,
                   index, gets, last_save, save_failures, flushes, mid_flushes,
                   exit_code>>

RetryLeftOffByOne(att, retries) == att < retries
\* Line 119: if attempt < retries - 1
RetryLeft(att, retries) == att < retries - 1
\* Line 121: wait_time = (2 ** attempt) * self.delay
WaitTime(att, delay) == (BackoffBase ^ att) * delay

\* fetch_page, lines 107-128: one pass of the for loop, or its exhaustion.
FetchAttempt ==
    /\ pc = "fetch"
    /\ IF attempt >= args.retries
       THEN /\ fetch_result' = "None"
            /\ pc' = "fetched"
            /\ UNCHANGED <<attempt, get_log, waits, gets>>
       ELSE \E ok \in BOOLEAN :
            /\ gets' = gets \cup {current_url.seg}
            /\ get_log' = Append(get_log, ok)
            /\ IF ok
               THEN /\ fetch_result' = "text"
                    /\ pc' = "fetched"
                    /\ UNCHANGED <<attempt, waits>>
               ELSE IF RetryLeft(attempt, args.retries)
               THEN /\ waits' = Append(waits, WaitTime(attempt, args.delay))
                    /\ attempt' = attempt + 1
                    /\ UNCHANGED <<fetch_result, pc>>
               ELSE /\ fetch_result' = "None"
                    /\ pc' = "fetched"
                    /\ UNCHANGED <<attempt, waits>>
    /\ UNCHANGED <<args, web, current_url, scraped_count, stats, workout_data,
                   files, index, pages_fetched, terminal, last_save,
                   save_failures, flushes, mid_flushes, exit_code>>

\* Lines 277-300 and 358-361: the rest of extract_workout_data and the test of
\* its result.
Extract ==
    /\ pc = "fetched"
    /\ IF fetch_result = "None" \/ web[current_url.seg].empty
       THEN /\ ExtractFailed
            /\ UNCHANGED workout_data
       ELSE /\ workout_data' = BuildRecord(current_url, web[current_url.seg])
            /\ pc' = "save"
            /\ UNCHANGED <<stats, terminal>>
    /\ attempt' = 0
    /\ fetch_result' = "pending"
    /\ get_log' = <<>>
    /\ waits' = <<>>
    /\ UNCHANGED <<args, web, current_url, scraped_count, files, index, gets,
                   pages_fetched, last_save, save_failures, flushes, mid_flushes,
                   exit_code>>

\* Lines 364-365: save_workout_data (302-318), then scraped_count += 1.
Save ==
    /\ pc = "save"
    /\ \E ok \in BOOLEAN :
        /\ ok \/ save_failures < MaxSaveFailures
        /\ IF ok
           THEN /\ files' = [files EXCEPT ![workout_data.date] = workout_data]
                /\ stats' = SaveOkStats(stats, workout_data.date)
                /\ last_save' = "ok"
                /\ UNCHANGED save_failures
           ELSE /\ stats' = SaveFailedStats(stats)
                /\ last_save' = "failed"
                /\ save_failures' = save_failures + 1
                /\ UNCHANGED files
    /\ scraped_count' = scraped_count + 1
    /\ pc' = "periodic"
    /\ UNCHANGED <<args, web, current_url, workout_data, index, attempt,
                   fetch_result, get_log, waits, gets, pages_fetched, terminal,
                   flushes, mid_flushes, exit_code>>

\* Line 368: if scraped_count % 10 == 0
FlushDue(count) == count % FlushPeriod = 0

\* Lines 368-369.
PeriodicFlush ==
    /\ pc = "periodic"
    /\ IF FlushDue(scraped_count)
       THEN /\ \E io_ok \in BOOLEAN : index' = update_index(index, stats, io_ok)
            /\ flushes' = [flushes EXCEPT !.periodic = @ + 1]
            /\ mid_flushes' = mid_flushes \cup {<<scraped_count, stats.total_scraped>>}
       ELSE UNCHANGED <<index, flushes, mid_flushes>>
    /\ pc' = "navigate"
    /\ UNCHANGED <<args, web, current_url, scraped_count, stats, workout_data,
                   files, attempt, fetch_result, get_log, waits, gets,
                   pages_fetched, terminal, last_save, save_failures, exit_code>>

\* Lines 372-383: follow the record's previous link, or stop; urljoin raising
\* leaves scrape_until_end with the exception.
Navigate ==
    /\ pc = "navigate"
    /\ LET previous_url == PreviousOf(workout_data) IN
       IF LinkFalsy(previous_url)
       THEN /\ terminal' = "no_previous"
            /\ pc' = "final"
            /\ UNCHANGED current_url
       ELSE IF UrlJoinRaises(previous_url)
       THEN /\ pc' = "except"
            /\ UNCHANGED <<current_url, terminal>>
       ELSE /\ current_url' = UrlJoin(BaseUrl, previous_url)
            /\ pc' = "loop"
            /\ UNCHANGED terminal
    /\ UNCHANGED <<args, web, scraped_count, stats, workout_data, files, index,
                   attempt, fetch_result, get_log, waits, gets, pages_fetched,
                   last_save, save_failures, flushes, mid_flushes, exit_code>>

\* Lines 386-392, and main returning: exit status 0.
FinalFlush ==
    /\ pc = "final"
    /\ \E io_ok \in BOOLEAN : index' = update_index(index, stats, io_ok)
    /\ flushes' = [flushes EXCEPT !.final = @ + 1]
    /\ exit_code' = 0
    /\ pc' = "exited"
    /\ UNCHANGED <<args, web, current_url, scraped_count, stats, workout_data,
                   files, attempt, fetch_result, get_log, waits, gets,
                   pages_fetched, terminal, last_save, save_failures, mid_flushes>>

----------------------------------------------------------------------------
(* main: the handlers around scrape_until_end *)

InTry == {"main", "loop", "fetch", "fetched", "save", "periodic", "navigate", "final"}

\* What each handler of main does to the index file and the exit status:
\* `flush` is whether it calls scraper.update_index() before sys.exit(1).
Handler(flush) ==
    /\ IF flush
       THEN /\ \E io_ok \in BOOLEAN : index' = update_index(index, stats, io_ok)
            /\ flushes' = [flushes EXCEPT !.handler = @ + 1]
       ELSE UNCHANGED <<index, flushes>>
    /\ exit_code' = 1
    /\ pc' = "exited"
    /\ UNCHANGED <<args, web, current_url, scraped_count, stats, workout_data,
                   files, attempt, fetch_result, get_log, waits, gets,
                   pages_fetched, terminal, last_save, save_failures, mid_flushes>>

\* Lines 467-470: Ctrl-C anywhere inside the try block.
KeyboardInterrupt ==
    /\ pc \in InTry
    /\ Handler(TRUE)

\* Lines 472-474: an exception that left scrape_until_end.
ExceptException ==
    /\ pc = "except"
    /\ Handler(FALSE)

----------------------------------------------------------------------------
(* Specifications *)

Next ==
    \/ StartScrape
    \/ LoopHead
    \/ FetchAttempt
    \/ Extract
    \/ Save
    \/ PeriodicFlush
    \/ Navigate
    \/ FinalFlush
    \/ KeyboardInterrupt
    \/ ExceptException

Spec == Init /\ [][Next]_vars

NextFetch == FetchAttempt

SpecFetch == InitFetch /\ [][NextFetch]_vars

\* The steps of the process itself: a sequential program whose every call
\* returns (each GET has timeout=30, each sleep is finite) keeps taking them.
\* Ctrl-C is the user's and may never come.
Crawl ==
    \/ StartScrape
    \/ LoopHead
    \/ FetchAttempt
    \/ Extract
    \/ Save
    \/ PeriodicFlush
    \/ Navigate
    \/ FinalFlush
    \/ ExceptException

\* main() called with --max-count.
InitLive == Init /\ args.max_count # NoMax

SpecLive == InitLive /\ [][Next]_vars /\ WF_vars(Crawl)

----------------------------------------------------------------------------
(* Properties *)

SavedDates == {d \in Dates : files[d] # NoFile}

\* Chronological order of two date codes.
Earlier(a, b) == parse_yymmdd_to_date(a) < parse_yymmdd_to_date(b)

\* C1: when extract_workout_data returns no record the crawl stops at once: the
\* step that finds it writes no record file, counts exactly one error and goes
\* to the final flush; from then on no GET is issued, no file written and no
\* further error counted; a run that ends normally has made the final flush;
\* and when the very first URL fails there are no files, no dates, one error.
C1_FetchFailureStops ==
    /\ [](terminal = "fetch_failure" /\ pc = "exited" /\ exit_code = 0
            => flushes.final = 1)
    /\ [](terminal = "fetch_failure" /\ scraped_count = 0
            => /\ SavedDates = {}
               /\ stats.extracted_dates = <<>>
               /\ stats.total_scraped = 0
               /\ stats.errors = 1
               /\ index.state # "absent"
                    => index.extracted_dates = <<>> /\ index.errors = 1)
    /\ [][terminal = "none" /\ terminal' = "fetch_failure"
            => /\ files' = files
               /\ gets' = gets
               /\ stats'.errors = stats.errors + 1
               /\ stats'.total_scraped = stats.total_scraped
               /\ pc' = "final"]_vars
    /\ [][terminal = "fetch_failure"
            => /\ files' = files
               /\ gets' = gets
               /\ pages_fetched' = pages_fetched
               /\ stats' = stats
               /\ pc' = "exited"]_vars

\* C1 witness: the fetch of the start URL used up its retries, and the run
\* ended with the final flush written.
C1_Witness ==
    /\ terminal = "fetch_failure"
    /\ scraped_count = 0
    /\ gets = {Code(1)}
    /\ pc = "exited"
    /\ flushes.final = 1
    /\ index.state # "absent"
    /\ stats.errors = 1

\* C2: with max_count = N, at most N pages are fetched and at most N persisted,
\* so the page the N-th record's previous link points to is never fetched.
C2_AtMostMaxCount ==
    args.max_count # NoMax =>
        /\ pages_fetched <= args.max_count
        /\ Cardinality(gets) <= args.max_count
        /\ scraped_count <= args.max_count
        /\ stats.total_scraped <= args.max_count
        /\ Cardinality(SavedDates) <= args.max_count

\* C2 witness: start 251101, max_count = 2: the files of the two newest dates,
\* the index with both, and the third date never requested.
C2_Witness ==
    /\ args.max_count = 2
    /\ terminal = "max_count"
    /\ pc = "exited"
    /\ SavedDates = {Code(1), Code(2)}
    /\ index.extracted_dates = <<Code(2), Code(1)>>
    /\ current_url = Url(Code(3))
    /\ Code(3) \notin gets

Ascending(s) == \A i \in 1..(Len(s) - 1) : StrLessEq(s[i], s[i + 1])
SameElements(s, t) ==
    /\ Len(s) = Len(t)
    /\ \A d \in Dates :
        Cardinality({i \in 1..Len(s) : s[i] = d}) = Cardinality({i \in 1..Len(t) : t[i] = d})

\* C3: an index file that was written holds a complete document whose
\* extracted_dates is, in ascending order, the dates saved up to some point of
\* the session, with total_workouts their number.
C3_IndexComplete ==
    index.state # "absent" =>
        /\ index.state = "complete"
        /\ Ascending(index.extracted_dates)
        /\ index.total_workouts = Len(index.extracted_dates)
        /\ \E k \in 0..Len(stats.extracted_dates) :
            SameElements(index.extracted_dates, SubSeq(stats.extracted_dates, 1, k))

\* C4: an exit with status 1, after Ctrl-C or after an exception that left
\* scrape_until_end, was preceded by the handler's call of update_index.
C4_FlushBeforeExit ==
    pc = "exited" /\ exit_code = 1 => flushes.handler = 1

\* C5: the index is flushed inside the loop exactly when the number of
\* successful saves has reached a multiple of 10.
C5_FlushEveryTenthSave ==
    /\ \A f \in mid_flushes : f[2] > 0 /\ f[2] % FlushPeriod = 0
    /\ pc = "navigate" /\ last_save = "ok" /\ stats.total_scraped % FlushPeriod = 0
        => <<scraped_count, stats.total_scraped>> \in mid_flushes

\* C6: no date code occurs twice in the extracted_dates of a written index.
C6_IndexDatesDistinct ==
    index.state # "absent" =>
        \A i, j \in 1..Len(index.extracted_dates) :
            index.extracted_dates[i] = index.extracted_dates[j] => i = j

\* C7: with an end date configured, no GET is issued for and no record saved
\* of a date earlier than it, and the loop stops on the end date only at a URL
\* whose date is strictly earlier (a page dated end_date itself is processed).
C7_EndDateBound ==
    args.end_date # NoStr =>
        /\ \A s \in gets : ~Earlier(s, args.end_date)
        /\ \A d \in SavedDates : ~Earlier(d, args.end_date)
        /\ terminal = "bound" =>
            /\ parse_date_from_url(current_url) # NoStr
            /\ Earlier(parse_date_from_url(current_url), args.end_date)

\* C7 witness: the page dated end_date was fetched and saved, the crawl then
\* stopped at the next older URL without requesting it.
C7_Witness ==
    /\ args.end_date = Code(2)
    /\ terminal = "bound"
    /\ Code(2) \in SavedDates
    /\ Code(2) \in gets
    /\ current_url = Url(Code(3))
    /\ Code(3) \notin gets
    /\ pc = "exited"

\* C8: the movement links of every extracted page are collected, whatever the
\* embedded state did to the first step.
C8_MovementsAlwaysCollected ==
    pc \in {"save", "periodic", "navigate"} =>
        workout_data.body.movements = web[workout_data.url.seg].movements

RECURSIVE Pow2(_)
Pow2(k) == IF k = 0 THEN 1 ELSE 2 * Pow2(k - 1)

\* C9: fetch_page makes at most `retries` GETs, none after a successful one;
\* the k-th failed GET (from 0) is followed by a wait of delay * 2^k unless it
\* was the last allowed; text is returned exactly after a successful GET and
\* failure exactly after `retries` failed ones.
C9_FetchRetries ==
    /\ Len(get_log) <= args.retries
    /\ \A i \in 1..(Len(get_log) - 1) : ~get_log[i]
    /\ \A k \in 1..Len(waits) : waits[k] = args.delay * Pow2(k - 1)
    /\ fetch_result = "pending" =>
        /\ pc = "fetch"
        /\ \A i \in 1..Len(get_log) : ~get_log[i]
        /\ Len(waits) = Len(get_log)
        /\ Len(get_log) < args.retries \/ args.retries = 0
    /\ fetch_result = "text" =>
        /\ get_log # <<>>
        /\ get_log[Len(get_log)]
        /\ Len(waits) = Len(get_log) - 1
    /\ fetch_result = "None" =>
        /\ \A i \in 1..Len(get_log) : ~get_log[i]
        /\ Len(get_log) = args.retries
        /\ Len(waits) = IF args.retries = 0 THEN 0 ELSE args.retries - 1
    /\ pc = "fetched" => fetch_result \in {"text", "None"}

\* C9 witness: three failed GETs with delay 1: waits of 1 and 2, then failure.
C9_Witness ==
    /\ args.retries = 3
    /\ args.delay = 1
    /\ get_log = <<FALSE, FALSE, FALSE>>
    /\ waits = <<1, 2>>
    /\ fetch_result = "None"
    /\ pc = "fetched"

\* C10: a failing save counts one error, leaves total_scraped and the list of
\* dates as they were and does not end the loop; the controller then follows
\* the record's previous link.
C10_SaveFailureContinues ==
    /\ [](last_save = "failed" /\ pc \in {"periodic", "navigate"} => terminal = "none")
    /\ [][pc = "save" /\ save_failures' # save_failures
            => /\ stats'.errors = stats.errors + 1
               /\ stats'.total_scraped = stats.total_scraped
               /\ stats'.extracted_dates = stats.extracted_dates
               /\ stats'.skipped = stats.skipped
               /\ pc' = "periodic"]_vars
    /\ [][(/\ pc = "navigate" /\ last_save = "failed" /\ pc' # "exited"
           /\ workout_data.body.hasNav
           /\ workout_data.body.previous.kind \in {"rel", "abs"})
            => /\ pc' = "loop"
               /\ current_url' = Url(workout_data.body.previous.seg)]_vars

\* C10 witness: the save of the first page failed and the second page is
\* being fetched.
C10_Witness ==
    /\ last_save = "failed"
    /\ pc = "fetch"
    /\ current_url = Url(Code(2))
    /\ stats.errors = 1
    /\ stats.total_scraped = 0
    /\ stats.extracted_dates = <<>>
    /\ scraped_count = 1

\* C11: once the loop has ended for any of its four reasons the process is at
\* the final flush, which it can take, and its only step is an index flush (the
\* final one, or the handler's after Ctrl-C) followed by the exit; no GET is
\* issued and no record saved from then on; and a start page without a previous
\* link, saved, leaves one record file and one date in the session and in the
\* index.
C11_TerminalsFlushOnce ==
    /\ [](terminal # "none" => pc \in {"final", "exited"})
    /\ [](terminal # "none" /\ pc = "exited" /\ exit_code = 0 => flushes.final = 1)
    /\ [][terminal # "none"
            => /\ gets' = gets
               /\ pages_fetched' = pages_fetched
               /\ files' = files
               /\ stats' = stats
               /\ scraped_count' = scraped_count
               /\ terminal' = terminal
               /\ pc' = "exited"
               /\ flushes'.final + flushes'.handler
                    = flushes.final + flushes.handler + 1]_vars
    /\ [](terminal = "no_previous" /\ scraped_count = 1 /\ last_save = "ok"
            => /\ Cardinality(SavedDates) = 1
               /\ Len(stats.extracted_dates) = 1
               /\ stats.total_scraped = 1
               /\ index.state # "absent"
                    => Len(index.extracted_dates) = 1 /\ index.total_workouts = 1)
    /\ [](terminal # "none" /\ pc # "exited" => ENABLED FinalFlush)

\* C11 witness: the start page carries no embedded state, hence no previous
\* link: one record file, one date in the index, final flush made.
C11_Witness ==
    /\ web[Code(1)].state = "none"
    /\ terminal = "no_previous"
    /\ scraped_count = 1
    /\ pc = "exited"
    /\ flushes.final = 1
    /\ SavedDates = {Code(1)}
    /\ index.extracted_dates = <<Code(1)>>
    /\ index.total_workouts = 1

\* C12: with max_count = N the loop ends after at most N calls of
\* extract_workout_data that reach the fetch, on every site, also one whose
\* previous links lead back to a date already saved: the process always gets to
\* a loop ending or to its exit, and a normal exit comes from a loop ending.
C12_TerminatesWithinMaxCount ==
    /\ [](pages_fetched <= args.max_count /\ scraped_count <= args.max_count)
    /\ [](pc = "exited" /\ exit_code = 0 => terminal # "none")
    /\ [](terminal = "max_count" => scraped_count = args.max_count)
    /\ <>(terminal # "none" \/ pc = "exited")

\* C12 witness: the newest page links to itself; with max_count = 2 it is
\* extracted and saved twice, and the count ends the loop.
C12_Witness ==
    /\ args.max_count = 2
    /\ web[Code(1)].previous = Link("rel", Code(1))
    /\ stats.extracted_dates = <<Code(1), Code(1)>>
    /\ pages_fetched = 2
    /\ terminal = "max_count"
    /\ pc = "exited"

====
